---------------------------- MODULE Spec2Model ----------------------------
(***************************************************************************)
(* Model of ofrak_patch_maker/toolchain/abstract.py: the Toolchain base    *)
(* class, its constructor, its pipeline stages (preprocess, compile,       *)
(* assemble, link) built on _execute_tool, its section-keep policy and its *)
(* default placeholder relocation sections.                                *)
(*                                                                         *)
(* Strings are sequences of one-character strings, so that concatenation,  *)
(* os.path.split, os.path.join, os.path.abspath and " ".join are computed  *)
(* character by character as Python (posixpath) computes them.  None is    *)
(* the empty sequence <<>> and a present optional value x is <<x>>.  A     *)
(* dict is a function whose domain is its key set.                         *)
(***************************************************************************)
EXTENDS Integers, Sequences, FiniteSets, TLC

VARIABLES
    pc,                   \* "new", "constructed", "failed", "idle", "returned"
    binary_file_parsers,  \* Toolchain.binary_file_parsers: parsers, each by its file_format
    toolchain_config,     \* the ToolchainConfig handed to __init__
    file_format,          \* self.file_format
    _parser,              \* self._parser: index of the parser bound in the list, 0 is None
    _config,              \* self._config (None until __init__ assigns it)
    _preprocessor_flags,  \* self._preprocessor_flags
    _compiler_flags,      \* self._compiler_flags
    _assembler_flags,     \* self._assembler_flags
    _linker_flags,        \* self._linker_flags
    _linker_keep_list,    \* self._linker_keep_list
    environ,              \* os.environ, the ambient process environment
    last                  \* the call in progress or just returned: inputs, argv, outcome

vars == <<pc, binary_file_parsers, toolchain_config, file_format, _parser, _config,
          _preprocessor_flags, _compiler_flags, _assembler_flags, _linker_flags,
          _linker_keep_list, environ, last>>

-----------------------------------------------------------------------------
(* Bounds of the model. *)

MaxPathLen == 2
MaxParsers == 1
MaxExit == 2

-----------------------------------------------------------------------------
(* Strings. *)

None == <<>>
Some(x) == <<x>>

Strs(chars, lo, hi) == UNION {[1..k -> chars] : k \in lo..hi}

startswith(s, p) == Len(s) >= Len(p) /\ SubSeq(s, 1, Len(p)) = p
endswith(s, p) == Len(s) >= Len(p) /\ SubSeq(s, Len(s) - Len(p) + 1, Len(s)) = p

\* sep.join(parts)
RECURSIVE str_join(_, _)
str_join(sep, parts) ==
    IF parts = <<>> THEN <<>>
    ELSE IF Len(parts) = 1 THEN parts[1]
    ELSE parts[1] \o sep \o str_join(sep, Tail(parts))

\* s.split(c) for a one-character separator c
RECURSIVE str_split(_, _)
str_split(s, c) ==
    IF \A i \in 1..Len(s) : s[i] # c THEN <<s>>
    ELSE LET i == CHOOSE k \in 1..Len(s) : s[k] = c /\ \A j \in 1..(k - 1) : s[j] # c
         IN <<SubSeq(s, 1, i - 1)>> \o str_split(SubSeq(s, i + 1, Len(s)), c)

\* s.rstrip(c)
RECURSIVE rstrip(_, _)
rstrip(s, c) ==
    IF s # <<>> /\ s[Len(s)] = c THEN rstrip(SubSeq(s, 1, Len(s) - 1), c) ELSE s

\* s.rfind(c) + 1: the 1-based position of the last c, 0 when there is none
rfind1(s, c) ==
    IF \A i \in 1..Len(s) : s[i] # c THEN 0
    ELSE CHOOSE k \in 1..Len(s) : s[k] = c /\ \A j \in (k + 1)..Len(s) : s[j] # c

Sep == <<"/">>
Dot == <<".">>
DotDot == <<".", ".">>
Space == <<" ">>

-----------------------------------------------------------------------------
(* os.path (posixpath), as imported and used by the stages. *)

\* os.path.split(p) = (head, tail)
split(p) ==
    LET i == rfind1(p, "/")
        head == SubSeq(p, 1, i)
        tail == SubSeq(p, i + 1, Len(p))
    IN  IF head # <<>> /\ (\E k \in 1..Len(head) : head[k] # "/")
        THEN <<rstrip(head, "/"), tail>>
        ELSE <<head, tail>>

\* os.path.join(a, b)
join(a, b) ==
    IF startswith(b, Sep) THEN b
    ELSE IF a = <<>> \/ endswith(a, Sep) THEN a \o b
    ELSE a \o Sep \o b

isabs(p) == startswith(p, Sep)

RECURSIVE normpath_loop(_, _, _)
normpath_loop(comps, new_comps, initial_slashes) ==
    IF comps = <<>> THEN new_comps
    ELSE LET comp == Head(comps)
             rest == Tail(comps)
         IN  IF comp = <<>> \/ comp = Dot
             THEN normpath_loop(rest, new_comps, initial_slashes)
             ELSE IF \/ comp # DotDot
                     \/ (initial_slashes = 0 /\ new_comps = <<>>)
                     \/ (new_comps # <<>> /\ new_comps[Len(new_comps)] = DotDot)
             THEN normpath_loop(rest, Append(new_comps, comp), initial_slashes)
             ELSE IF new_comps # <<>>
             THEN normpath_loop(rest, SubSeq(new_comps, 1, Len(new_comps) - 1),
                                initial_slashes)
             ELSE normpath_loop(rest, new_comps, initial_slashes)

\* os.path.normpath(path)
normpath(path) ==
    IF path = <<>> THEN Dot
    ELSE LET initial_slashes ==
                 IF ~startswith(path, Sep) THEN 0
                 ELSE IF startswith(path, <<"/", "/">>) /\ ~startswith(path, <<"/", "/", "/">>)
                 THEN 2 ELSE 1
             comps == normpath_loop(str_split(path, "/"), <<>>, initial_slashes)
             body == str_join(Sep, comps)
             res == [i \in 1..initial_slashes |-> "/"] \o body
         IN  IF res = <<>> THEN Dot ELSE res

\* os.getcwd(): the working directory of the process that runs the Toolchain
getcwd == <<"/", "w">>

abspath_relative(path) == path

\* os.path.abspath(path)
abspath(path) ==
    IF isabs(path) THEN normpath(path) ELSE normpath(join(getcwd, path))


-----------------------------------------------------------------------------
(* Values the model draws its inputs from. *)

\* ToolchainConfig.file_format values, and the formats a registered parser can have
BinFileType == {"ELF", "PE", "COFF"}
ParserFormats == {"ELF", "PE"}
ParserLists == UNION {[1..k -> ParserFormats] : k \in 0..MaxParsers}

ToolchainConfigs ==
    [file_format : BinFileType,
     separate_data_sections : BOOLEAN,
     create_map_files : BOOLEAN,
     relocatable : BOOLEAN]

PathChars == {"/", ".", "a"}
SourceFiles == Strs(PathChars, 1, MaxPathLen)
OutDirs == {<<".">>, <<"/", "a">>, <<"a", "/">>, <<".", ".">>}
HeaderDirLists == {<<>>, << <<"i">>, <<"/", "h">> >>}
ObjectLists == {<<>>, << <<"a", ".", "o">> >>, << <<"a", ".", "o">>, <<"/", "b", ".", "o">> >>}
ExecPaths == {<<"x">>, <<"/", "a", "/", "x">>}
Scripts == {None, Some(<<"s", ".", "l", "d">>)}
ExitCodes == 0..MaxExit

EnvKeys == {"PATH", "CC"}
EnvValues == {"u", "v"}
EnvDicts == UNION {[D -> EnvValues] : D \in SUBSET EnvKeys}
EnvArgs == {None} \cup {Some(d) : d \in EnvDicts}

\* dict.update: b's values win on a key both hold
dict_update(a, b) ==
    [k \in (DOMAIN a) \cup (DOMAIN b) |-> IF k \in DOMAIN b THEN b[k] ELSE a[k]]

DashI == <<"-", "I">>
DashO == <<"-", "o">>

\* Section names handed to keep_section: the kept ones, their prefixes and
\* extensions, and names of the discard list
S_data == <<".", "d", "a", "t", "a">>
S_rodata == <<".", "r", "o", "d", "a", "t", "a">>
S_text == <<".", "t", "e", "x", "t">>
S_rel == <<".", "r", "e", "l">>
S_hash == <<".", "h", "a", "s", "h">>
S_comment == <<".", "c", "o", "m", "m", "e", "n", "t">>
KeepNames == {S_data, S_rodata, S_text, S_rel}
SectionNames ==
    KeepNames
    \cup {n \o <<".", "x">> : n \in KeepNames}
    \cup {n \o <<"a">> : n \in KeepNames}
    \cup {SubSeq(n, 1, Len(n) - 1) : n \in KeepNames}
    \cup {Tail(n) : n \in KeepNames}
    \cup {<<>>, S_hash, S_comment}

NoError == [type |-> "None", cmd |-> <<>>, returncode |-> 0]

\* The record of a call: its inputs, the subprocess runs it made, its outcome
NoCall ==
    [op |-> "none", arg_file |-> <<>>, arg_list |-> <<>>, arg_dir |-> <<>>,
     arg_opt |-> None, arg_flags |-> <<>>, arg_env |-> None, arg_code |-> 0,
     runs |-> <<>>, raised |-> FALSE, error |-> NoError, ret |-> None]

-----------------------------------------------------------------------------
(* Configuration lookups and back-end hooks the base class leaves abstract. *)

\* get_repository_config(self.name, "PREPROCESSOR") and its siblings
_preprocessor_path == <<"c", "p", "p">>
_compiler_path == <<"c", "c">>
_assembler_path == <<"a", "s">>
_linker_path == <<"l", "d">>

\* the back end's linker script flag
_linker_script_flag == <<"-", "T">>

\* the back end's map-file flag for exec_path
_get_linker_map_flag(exec_path) ==
    << <<"-", "M", "a", "p", "=">> \o exec_path \o <<".", "m", "a", "p">> >>

\* the flag lists a back end's constructor leaves in the four lists
FlagProfiles ==
    {[pre |-> <<>>, cc |-> <<>>, as |-> <<>>, ld |-> <<>>],
     [pre |-> << <<"-", "E">> >>, cc |-> << <<"-", "c">> >>,
      as |-> << <<"-", "g">> >>, ld |-> << <<"-", "s">> >>]}

-----------------------------------------------------------------------------
(* Toolchain.__init__ *)

\* for parser in self.binary_file_parsers: if parser.file_format is fmt: ... break
\* the index of the parser bound, 0 for None
find_parser_fallback(parsers, fmt) ==
    IF \E i \in 1..Len(parsers) : parsers[i] = fmt
    THEN CHOOSE i \in 1..Len(parsers) :
             parsers[i] = fmt /\ \A j \in 1..(i - 1) : parsers[j] # fmt
    ELSE IF parsers # <<>> THEN 1 ELSE 0

find_parser(parsers, fmt) ==
    IF \E i \in 1..Len(parsers) : parsers[i] = fmt
    THEN CHOOSE i \in 1..Len(parsers) :
             parsers[i] = fmt /\ \A j \in 1..(i - 1) : parsers[j] # fmt
    ELSE 0

Construct ==
    /\ pc = "new"
    /\ file_format' = toolchain_config.file_format
    /\ _parser' = find_parser(binary_file_parsers, toolchain_config.file_format)
    /\ IF _parser' = 0
       THEN /\ pc' = "failed"
            /\ last' = [NoCall EXCEPT !.op = "__init__", !.raised = TRUE,
                            !.error = [type |-> "ValueError", cmd |-> <<>>, returncode |-> 0]]
            /\ UNCHANGED <<_config, _preprocessor_flags, _compiler_flags,
                           _assembler_flags, _linker_flags, _linker_keep_list>>
       ELSE /\ pc' = "constructed"
            /\ _preprocessor_flags' = <<>>
            /\ _compiler_flags' = <<>>
            /\ _assembler_flags' = <<>>
            /\ _linker_flags' = <<>>
            /\ _config' = Some(toolchain_config)
            /\ _linker_keep_list' = <<S_data, S_rodata, S_text, S_rel>>
            /\ last' = [NoCall EXCEPT !.op = "__init__"]
    /\ UNCHANGED <<binary_file_parsers, toolchain_config, environ>>

\* The concrete back end's constructor, after Toolchain.__init__ returns: it
\* fills the flag lists, and the Toolchain is handed to its callers
BackendInit ==
    /\ pc = "constructed"
    /\ \E f \in FlagProfiles :
           /\ _preprocessor_flags' = _preprocessor_flags \o f.pre
           /\ _compiler_flags' = _compiler_flags \o f.cc
           /\ _assembler_flags' = _assembler_flags \o f.as
           /\ _linker_flags' = _linker_flags \o f.ld
    /\ pc' = "idle"
    /\ last' = NoCall
    /\ UNCHANGED <<binary_file_parsers, toolchain_config, file_format, _parser, _config,
                   _linker_keep_list, environ>>

-----------------------------------------------------------------------------
(* Toolchain._execute_tool *)

ToolError(args, returncode) ==
    [type |-> "ValueError", cmd |-> str_join(Space, args), returncode |-> returncode]

\* Variants of _execute_tool with one plausible slip each.
_execute_tool_unchecked(tool_path, flags, in_files, out_file, env, os_environ, returncode) ==
    LET final_flags == flags \o (IF out_file # None THEN <<DashO \o out_file[1]>> ELSE <<>>)
        args == <<tool_path>> \o final_flags \o in_files
        my_env == IF env # None /\ DOMAIN env[1] # {}
                  THEN dict_update(os_environ, env[1]) ELSE os_environ
    IN  [runs |-> <<[argv |-> args, env |-> my_env]>>,
         raised |-> FALSE, error |-> NoError, ret |-> Some(<<>>),
         flags |-> flags, environ |-> os_environ]

_execute_tool_inputs_first(tool_path, flags, in_files, out_file, env, os_environ, returncode) ==
    LET final_flags == flags \o (IF out_file # None THEN <<DashO \o out_file[1]>> ELSE <<>>)
        args == <<tool_path>> \o in_files \o final_flags
        my_env == IF env # None /\ DOMAIN env[1] # {}
                  THEN dict_update(os_environ, env[1]) ELSE os_environ
    IN  [runs |-> <<[argv |-> args, env |-> my_env]>>,
         raised |-> returncode # 0,
         error |-> IF returncode # 0 THEN ToolError(args, returncode) ELSE NoError,
         ret |-> IF returncode # 0 THEN None ELSE Some(<<>>),
         flags |-> flags, environ |-> os_environ]

_execute_tool_shared_env(tool_path, flags, in_files, out_file, env, os_environ, returncode) ==
    LET final_flags == flags \o (IF out_file # None THEN <<DashO \o out_file[1]>> ELSE <<>>)
        args == <<tool_path>> \o final_flags \o in_files
        my_env == IF env # None /\ DOMAIN env[1] # {}
                  THEN dict_update(os_environ, env[1]) ELSE os_environ
    IN  [runs |-> <<[argv |-> args, env |-> my_env]>>,
         raised |-> returncode # 0,
         error |-> IF returncode # 0 THEN ToolError(args, returncode) ELSE NoError,
         ret |-> IF returncode # 0 THEN None ELSE Some(<<>>),
         flags |-> flags, environ |-> my_env]

\* runs: the subprocess.run calls made, each with its argv and the environment
\* the child gets; flags and environ: the caller's list and os.environ as the
\* call leaves them; ret: proc.stdout (its text is not modelled)
_execute_tool(tool_path, flags, in_files, out_file, env, os_environ, returncode) ==
    LET final_flags == flags \o (IF out_file # None THEN <<DashO \o out_file[1]>> ELSE <<>>)
        args == <<tool_path>> \o final_flags \o in_files
        my_env == IF env # None /\ DOMAIN env[1] # {}
                  THEN dict_update(os_environ, env[1]) ELSE os_environ
    IN  [runs |-> <<[argv |-> args, env |-> my_env]>>,
         raised |-> returncode # 0,
         error |-> IF returncode # 0 THEN ToolError(args, returncode) ELSE NoError,
         ret |-> IF returncode # 0 THEN None ELSE Some(<<>>),
         flags |-> flags, environ |-> os_environ]

-----------------------------------------------------------------------------
(* The pipeline stages. *)

include_flags(header_dirs) == [i \in 1..Len(header_dirs) |-> DashI \o header_dirs[i]]

\* A stage: out_file = join(out_dir, split(file)[-1] + suffix); _execute_tool;
\* return os.path.abspath(out_file)
stage(tool_path, flags, suffix, file, header_dirs, out_dir, os_environ, returncode) ==
    LET out_file == join(out_dir, split(file)[2] \o suffix)
        r == _execute_tool(tool_path, flags, <<file>> \o include_flags(header_dirs),
                           Some(out_file), None, os_environ, returncode)
    IN  [r EXCEPT !.ret = IF r.raised THEN None ELSE Some(abspath(out_file))]

preprocess(flags, source_file, header_dirs, out_dir, os_environ, returncode) ==
    stage(_preprocessor_path, flags, <<".", "p">>, source_file, header_dirs, out_dir,
          os_environ, returncode)

compile(flags, c_file, header_dirs, out_dir, os_environ, returncode) ==
    stage(_compiler_path, flags, <<".", "o">>, c_file, header_dirs, out_dir,
          os_environ, returncode)

assemble(flags, asm_file, header_dirs, out_dir, os_environ, returncode) ==
    stage(_assembler_path, flags, <<".", "o">>, asm_file, header_dirs, out_dir,
          os_environ, returncode)

link_flags(linker_flags, create_map_files, exec_path, script) ==
    linker_flags
    \o (IF script # None THEN <<_linker_script_flag \o script[1]>> ELSE <<>>)
    \o (IF create_map_files THEN _get_linker_map_flag(exec_path) ELSE <<>>)

\* Variants of link with one plausible slip each.
link_always_map(linker_flags, create_map_files, o_files, exec_path, script, os_environ, returncode) ==
    LET flags == link_flags(linker_flags, TRUE, exec_path, script)
        r == _execute_tool(_linker_path, flags, o_files, Some(exec_path), None,
                           os_environ, returncode)
    IN  [r EXCEPT !.ret = None, !.flags = linker_flags]

link_alias(linker_flags, create_map_files, o_files, exec_path, script, os_environ, returncode) ==
    LET flags == link_flags(linker_flags, create_map_files, exec_path, script)
        r == _execute_tool(_linker_path, flags, o_files, Some(exec_path), None,
                           os_environ, returncode)
    IN  [r EXCEPT !.ret = None, !.flags = flags]

\* flags: self._linker_flags as the call leaves it (link extends a fresh list)
link(linker_flags, create_map_files, o_files, exec_path, script, os_environ, returncode) ==
    LET flags == link_flags(linker_flags, create_map_files, exec_path, script)
        r == _execute_tool(_linker_path, flags, o_files, Some(exec_path), None,
                           os_environ, returncode)
    IN  [r EXCEPT !.ret = None, !.flags = linker_flags]

-----------------------------------------------------------------------------
(* Section policy and placeholder sections. *)

Unsupported == [type |-> "NotImplementedError", cmd |-> <<>>, returncode |-> 0]

in_list(x, list) == \E i \in 1..Len(list) : list[i] = x

keep_section_prefix(config, keep_list, section_name) ==
    IF config.separate_data_sections
    THEN [raised |-> TRUE, error |-> Unsupported, ret |-> None]
    ELSE [raised |-> FALSE, error |-> NoError,
          ret |-> Some(\E i \in 1..Len(keep_list) : startswith(section_name, keep_list[i]))]

keep_section_silent(config, keep_list, section_name) ==
    [raised |-> FALSE, error |-> NoError, ret |-> Some(in_list(section_name, keep_list))]

keep_section(config, keep_list, section_name) ==
    IF config.separate_data_sections
    THEN [raised |-> TRUE, error |-> Unsupported, ret |-> None]
    ELSE [raised |-> FALSE, error |-> NoError, ret |-> Some(in_list(section_name, keep_list))]

ld_generate_placeholder_reloc_sections_got(config) ==
    IF config.relocatable
    THEN << << <<".", "g", "o", "t">> >>, << <<".", "g", "o", "t">> >> >>
    ELSE << <<>>, <<>> >>

ld_generate_placeholder_reloc_sections(config) == << <<>>, <<>> >>

-----------------------------------------------------------------------------
(* The state machine: a Toolchain is constructed once, then its callers call *)
(* its operations one at a time (the model is single-threaded, as the code   *)
(* is); Return is the caller taking the result before its next call.         *)

Init ==
    /\ pc = "new"
    /\ binary_file_parsers \in ParserLists
    /\ toolchain_config \in ToolchainConfigs
    /\ file_format = "None"
    /\ _parser = 0
    /\ _config = None
    /\ _preprocessor_flags = <<>>
    /\ _compiler_flags = <<>>
    /\ _assembler_flags = <<>>
    /\ _linker_flags = <<>>
    /\ _linker_keep_list = <<>>
    /\ environ = ("PATH" :> "u")
    /\ last = NoCall

Called(op, file, list, dir, opt, flags, env, code, r) ==
    [op |-> op, arg_file |-> file, arg_list |-> list, arg_dir |-> dir, arg_opt |-> opt,
     arg_flags |-> flags, arg_env |-> env, arg_code |-> code,
     runs |-> r.runs, raised |-> r.raised, error |-> r.error, ret |-> r.ret]

Fixed == <<binary_file_parsers, toolchain_config, file_format, _parser, _config,
           _linker_keep_list>>

Preprocess ==
    /\ pc = "idle"
    /\ \E source_file \in SourceFiles, header_dirs \in HeaderDirLists,
          out_dir \in OutDirs, returncode \in ExitCodes :
           LET r == preprocess(_preprocessor_flags, source_file, header_dirs, out_dir,
                               environ, returncode)
           IN  /\ _preprocessor_flags' = r.flags
               /\ environ' = r.environ
               /\ last' = Called("preprocess", source_file, header_dirs, out_dir, None,
                                 <<>>, None, returncode, r)
    /\ pc' = "returned"
    /\ UNCHANGED <<Fixed, _compiler_flags, _assembler_flags, _linker_flags>>

Compile ==
    /\ pc = "idle"
    /\ \E c_file \in SourceFiles, header_dirs \in HeaderDirLists,
          out_dir \in OutDirs, returncode \in ExitCodes :
           LET r == compile(_compiler_flags, c_file, header_dirs, out_dir,
                            environ, returncode)
           IN  /\ _compiler_flags' = r.flags
               /\ environ' = r.environ
               /\ last' = Called("compile", c_file, header_dirs, out_dir, None,
                                 <<>>, None, returncode, r)
    /\ pc' = "returned"
    /\ UNCHANGED <<Fixed, _preprocessor_flags, _assembler_flags, _linker_flags>>

Assemble ==
    /\ pc = "idle"
    /\ \E asm_file \in SourceFiles, header_dirs \in HeaderDirLists,
          out_dir \in OutDirs, returncode \in ExitCodes :
           LET r == assemble(_assembler_flags, asm_file, header_dirs, out_dir,
                             environ, returncode)
           IN  /\ _assembler_flags' = r.flags
               /\ environ' = r.environ
               /\ last' = Called("assemble", asm_file, header_dirs, out_dir, None,
                                 <<>>, None, returncode, r)
    /\ pc' = "returned"
    /\ UNCHANGED <<Fixed, _preprocessor_flags, _compiler_flags, _linker_flags>>

Link ==
    /\ pc = "idle"
    /\ \E o_files \in ObjectLists, exec_path \in ExecPaths, script \in Scripts,
          returncode \in ExitCodes :
           LET r == link(_linker_flags, _config[1].create_map_files, o_files, exec_path,
                         script, environ, returncode)
           IN  /\ _linker_flags' = r.flags
               /\ environ' = r.environ
               /\ last' = Called("link", exec_path, o_files, <<>>, script,
                                 <<>>, None, returncode, r)
    /\ pc' = "returned"
    /\ UNCHANGED <<Fixed, _preprocessor_flags, _compiler_flags, _assembler_flags>>

\* A direct call of _execute_tool (by a back end's own operations), the only
\* way an environment overlay is passed
ExecuteTool ==
    /\ pc = "idle"
    /\ \E out_file \in {None, Some(<<"x">>)}, env \in EnvArgs, returncode \in ExitCodes :
           LET flags == << <<"-", "v">> >>
               in_files == << <<"a">> >>
               r == _execute_tool(_linker_path, flags, in_files, out_file, env,
                                  environ, returncode)
           IN  /\ environ' = r.environ
               /\ last' = Called("_execute_tool", _linker_path, in_files, <<>>, out_file,
                                 flags, env, returncode, r)
    /\ pc' = "returned"
    /\ UNCHANGED <<Fixed, _preprocessor_flags, _compiler_flags, _assembler_flags,
                   _linker_flags>>

NoRun(r) == [runs |-> <<>>, raised |-> r.raised, error |-> r.error, ret |-> r.ret]

KeepSection ==
    /\ pc = "idle"
    /\ \E section_name \in SectionNames :
           LET r == keep_section(_config[1], _linker_keep_list, section_name)
           IN  last' = Called("keep_section", section_name, <<>>, <<>>, None,
                              <<>>, None, 0, NoRun(r))
    /\ pc' = "returned"
    /\ UNCHANGED <<Fixed, _preprocessor_flags, _compiler_flags, _assembler_flags,
                   _linker_flags, environ>>

PlaceholderRelocSections ==
    /\ pc = "idle"
    /\ LET r == ld_generate_placeholder_reloc_sections(_config[1])
       IN  last' = Called("ld_generate_placeholder_reloc_sections", <<>>, <<>>, <<>>,
                          None, <<>>, None, 0,
                          [runs |-> <<>>, raised |-> FALSE, error |-> NoError,
                           ret |-> Some(r)])
    /\ pc' = "returned"
    /\ UNCHANGED <<Fixed, _preprocessor_flags, _compiler_flags, _assembler_flags,
                   _linker_flags, environ>>

Return ==
    /\ pc = "returned"
    /\ pc' = "idle"
    /\ last' = NoCall
    /\ UNCHANGED <<Fixed, _preprocessor_flags, _compiler_flags, _assembler_flags,
                   _linker_flags, environ>>

Next ==
    \/ Construct
    \/ BackendInit
    \/ Preprocess
    \/ Compile
    \/ Assemble
    \/ Link
    \/ ExecuteTool
    \/ KeepSection
    \/ PlaceholderRelocSections
    \/ Return

Spec == Init /\ [][Next]_vars

-----------------------------------------------------------------------------
(* Properties. *)

StageOps == {"preprocess", "compile", "assemble"}
PipelineOps == StageOps \cup {"link"}
ToolOps == PipelineOps \cup {"_execute_tool"}

Returned(ops) == pc = "returned" /\ last.op \in ops

SuffixOf(op) == IF op = "preprocess" THEN <<".", "p">> ELSE <<".", "o">>
ToolOf(op) ==
    IF op = "preprocess" THEN _preprocessor_path
    ELSE IF op = "compile" THEN _compiler_path ELSE _assembler_path
StoredFlagsOf(op) ==
    IF op = "preprocess" THEN _preprocessor_flags
    ELSE IF op = "compile" THEN _compiler_flags ELSE _assembler_flags

\* basename(input) + suffix of the stage call recorded in last
OutName == split(last.arg_file)[2] \o SuffixOf(last.op)

NoParserRegistered ==
    \A i \in 1..Len(binary_file_parsers) :
        binary_file_parsers[i] # toolchain_config.file_format

\* C1: once __init__ has run with a file_format that no registered parser has
\* (whatever the parser list, the empty one included), it has raised ValueError
\* and no Toolchain exists: no configuration was bound and no operation runs.
C1_NoParserFails ==
    (pc # "new" /\ NoParserRegistered) =>
        /\ pc = "failed"
        /\ last.op = "__init__" /\ last.raised /\ last.error.type = "ValueError"
        /\ _parser = 0
        /\ _config = None

C1_Witness ==
    /\ pc = "failed"
    /\ binary_file_parsers # <<>>
    /\ NoParserRegistered
    /\ last.raised

C3_ToolFailureSurfaced ==
    (Returned(PipelineOps) /\ last.arg_code # 0) =>
        /\ last.raised
        /\ Len(last.runs) = 1
        /\ last.error.cmd = str_join(Space, last.runs[1].argv)
        /\ last.error.returncode = last.arg_code
        /\ last.ret = None

C3_Witness ==
    /\ Returned({"link"})
    /\ last.arg_code = 2
    /\ last.raised
    /\ last.error.returncode = 2
    /\ last.error.cmd # <<>>

IsMapFlag(arg) == startswith(arg, <<"-", "M", "a", "p", "=">>)
MapFlagCount(argv) == Cardinality({i \in 1..Len(argv) : IsMapFlag(argv[i])})

\* C4: the argv link hands to the linker holds exactly one map-file flag when
\* create_map_files is true and none when it is false.
C4_OneMapFlag ==
    Returned({"link"}) =>
        /\ Len(last.runs) = 1
        /\ MapFlagCount(last.runs[1].argv)
               = (IF _config[1].create_map_files THEN 1 ELSE 0)

C4_Witness ==
    /\ Returned({"link"})
    /\ _config[1].create_map_files
    /\ last.arg_opt # None
    /\ Len(last.arg_list) = 2
    /\ MapFlagCount(last.runs[1].argv) = 1

\* C5: with separate_data_sections false, keep_section(name) returns true
\* exactly when name is one of .data, .rodata, .text, .rel, whatever was called
\* before.
C5_KeepSectionMembership ==
    (Returned({"keep_section"}) /\ ~_config[1].separate_data_sections) =>
        /\ ~last.raised
        /\ last.ret = Some(last.arg_file \in KeepNames)

C5_Witness ==
    /\ Returned({"keep_section"})
    /\ ~_config[1].separate_data_sections
    /\ last.arg_file = S_data \o <<".", "x">>
    /\ last.ret = Some(FALSE)

\* C6: with separate_data_sections true, keep_section raises
\* NotImplementedError for every name, kept names included, and returns nothing.
C6_KeepSectionUnsupported ==
    (Returned({"keep_section"}) /\ _config[1].separate_data_sections) =>
        /\ last.raised
        /\ last.error.type = "NotImplementedError"
        /\ last.ret = None

C6_Witness ==
    /\ Returned({"keep_section"})
    /\ _config[1].separate_data_sections
    /\ last.arg_file = S_text
    /\ last.raised

\* C7: ld_generate_placeholder_reloc_sections returns an empty sequence of
\* regions and an empty sequence of sections, whatever the configuration.
C7_PlaceholderEmpty ==
    Returned({"ld_generate_placeholder_reloc_sections"}) =>
        /\ ~last.raised
        /\ last.ret = Some(<< <<>>, <<>> >>)

C7_Witness ==
    /\ Returned({"ld_generate_placeholder_reloc_sections"})
    /\ _config[1].relocatable
    /\ last.ret[1][1] = <<>>

\* C8 as stated: the argv of preprocess, compile and assemble is the tool path,
\* the fixed flags, one -I entry per header directory, the input file, and the
\* -o output flag last.
C8_Original ==
    Returned(StageOps) =>
        /\ Len(last.runs) = 1
        /\ last.runs[1].argv =
               <<ToolOf(last.op)>> \o StoredFlagsOf(last.op)
               \o include_flags(last.arg_list) \o <<last.arg_file>>
               \o <<DashO \o join(last.arg_dir, OutName)>>

\* C8 as amended: the argv of preprocess, compile and assemble is the tool path,
\* the fixed flags, the -o output flag, the input file, and then one -I entry
\* per header directory in the given order.
C8_ArgvOrder ==
    Returned(StageOps) =>
        /\ Len(last.runs) = 1
        /\ LET argv == last.runs[1].argv
               n == Len(StoredFlagsOf(last.op))
               h == Len(last.arg_list)
           IN  /\ Len(argv) = n + h + 3
               /\ argv[1] = ToolOf(last.op)
               /\ SubSeq(argv, 2, n + 1) = StoredFlagsOf(last.op)
               /\ argv[n + 2] = DashO \o join(last.arg_dir, OutName)
               /\ argv[n + 3] = last.arg_file
               /\ \A i \in 1..h : argv[n + 3 + i] = DashI \o last.arg_list[i]

C8_Witness ==
    /\ Returned({"compile"})
    /\ _compiler_flags # <<>>
    /\ Len(last.arg_list) = 2
    /\ Len(last.runs[1].argv) = 6
    /\ last.runs[1].argv[3] = DashO \o join(last.arg_dir, OutName)

AllFlags == <<_preprocessor_flags, _compiler_flags, _assembler_flags, _linker_flags>>

\* C9: once the Toolchain is constructed, no call (succeeding or failing)
\* changes any of the four stored flag lists.
C9_FlagListsFixed ==
    [][(pc \in {"idle", "returned"}) => AllFlags' = AllFlags]_vars

C9_Witness ==
    /\ Returned({"link"})
    /\ last.arg_opt # None
    /\ _config[1].create_map_files
    /\ Len(last.runs[1].argv) > Len(_linker_flags) + Len(last.arg_list) + 2
    /\ _linker_flags = << <<"-", "s">> >>

\* The environment a child process must get: the overlay's value for a key the
\* overlay holds, the ambient value for every other key
Overlaid(ambient, env) ==
    IF env = None THEN ambient
    ELSE [k \in (DOMAIN ambient) \cup (DOMAIN env[1]) |->
              IF k \in DOMAIN env[1] THEN env[1][k] ELSE ambient[k]]

\* C10: every tool invocation leaves os.environ as it was, and its child
\* process gets the ambient environment with the call's overlay on top (the
\* ambient environment alone when no overlay is passed).
C10_OverlayPerInvocation ==
    [][/\ environ' = environ
       /\ (pc' = "returned" /\ last'.op \in ToolOps) =>
              /\ Len(last'.runs) = 1
              /\ last'.runs[1].env = Overlaid(environ, last'.arg_env)]_vars

C10_Witness ==
    /\ Returned({"_execute_tool"})
    /\ last.arg_env = Some(("PATH" :> "v") @@ ("CC" :> "u"))
    /\ last.raised
    /\ last.runs[1].env = (("PATH" :> "v") @@ ("CC" :> "u"))
    /\ environ = ("PATH" :> "u")

=============================================================================
